---- MODULE Spec2Model ----
(***************************************************************************)
(* A model of moshes_insanity.py: the generation of the 30 rotation-       *)
(* distinct cubes, the exclusion table, the random game selection, the     *)
(* oracle selection and the chessboard, plus call harnesses for the pure   *)
(* functions (spin_cube_clockwise, get_corners, is_corner_matching,        *)
(* has_matching_corners, safe_remove_cube_from_list).                      *)
(*                                                                         *)
(* A colour is a one-character string, a cube a tuple of colours (slot k   *)
(* of the Python tuple is element k+1 here), a corner the tuple of the     *)
(* three characters of the Python corner string.  Cube indices are 0-based *)
(* as in the program.                                                      *)
(***************************************************************************)
EXTENDS Integers, Sequences, FiniteSets, TLC

VARIABLES
    pc,                 \* position in main(), or in a call harness
    cubes,              \* the list generate_cubes / safe_remove mutates
    i,                  \* loop index of generate_cubes
    exclusions,         \* main's exclusions dict: index -> set of indices
    game_cube_numbers,  \* main's set of drawn indices
    oracle_cubes,       \* main's list returned by get_oracle_cubes
    chessboard,         \* main's dict returned by generate_chessboard
    args,               \* harness: the arguments of the calls, as drawn
    spun,               \* harness: args.cube after the spins applied so far
    n,                  \* harness: number of spins applied
    ret                 \* harness: what the last call returned or raised

vars == <<pc, cubes, i, exclusions, game_cube_numbers, oracle_cubes, chessboard,
          args, spun, n, ret>>

mainVars == <<cubes, i, exclusions, game_cube_numbers, oracle_cubes, chessboard>>
harnessVars == <<args, spun, n, ret>>

None == "None"

-----------------------------------------------------------------------------
(* Program constants *)

CUBE_COLORS == <<"B", "G", "P", "R", "W", "Y">>

\* range(0,30) in generate_cubes; randint(0, 29) draws from 0..NumCubes-1
NumCubes == 30

\* while len(game_cube_numbers) < 8
GameSize == 8

-----------------------------------------------------------------------------
(* Bounds of the model *)

\* the draws of randint(0, 29) explored are 0..MaxDraw-1
MaxDraw == 12

\* spins applied to a cube in the spin harness
MaxSpins == 4

\* second cubes tried in the spin harness: the first MaxCube2 anchored orderings
MaxCube2 == 8

\* longest tuple given as a cube in the malformed-cube harness
MaxCubeLen == 7

\* longest list given to safe_remove_cube_from_list in its harness
MaxListLen == 3

-----------------------------------------------------------------------------
(* Python helpers *)

Range(s) == {s[k] : k \in DOMAIN s}

Min(a, b) == IF a < b THEN a ELSE b

RemoveAt(s, k) == SubSeq(s, 1, k - 1) \o SubSeq(s, k + 1, Len(s))

\* what a call gives back: a value, or an exception
Returned(fn, v) == [fn |-> fn, exc |-> None, val |-> v]

Raised(fn, e) == [fn |-> fn, exc |-> e, val |-> None]

NoCall == [fn |-> None, exc |-> None, val |-> None]

IsCubeOrdering(c) ==
    /\ c \in Seq({"B", "G", "P", "R", "W", "Y"})
    /\ Len(c) = 6
    /\ \A a, b \in 1..6 : a # b => c[a] # c[b]

\* itertools.permutations(s): all orderings, in the order of the positions in s
RECURSIVE permutations(_), PermsFrom(_, _)
PermsFrom(s, k) ==
    IF k > Len(s) THEN <<>>
    ELSE LET rest == permutations(RemoveAt(s, k))
         IN  [j \in 1..Len(rest) |-> <<s[k]>> \o rest[j]] \o PermsFrom(s, k + 1)

permutations(s) == IF s = <<>> THEN << <<>> >> ELSE PermsFrom(s, 1)

\* any(S) over a set of ints: an element is falsy iff it is 0
any_int(S) == \E x \in S : x # 0

\* any(S) over a set of strings: an element is falsy iff it is empty
any_str(S) == \E x \in S : x # <<>>

\* list.remove(x): drops the first occurrence, raises ValueError without one
list_remove(lst, x) ==
    IF x \notin Range(lst) THEN [exc |-> "ValueError", lst |-> lst]
    ELSE LET k == CHOOSE j \in DOMAIN lst :
                      lst[j] = x /\ \A m \in 1..(j - 1) : lst[m] # x
         IN  [exc |-> None, lst |-> RemoveAt(lst, k)]

\* the elements of a set of ints as a list in increasing order
RECURSIVE Ascending(_)
Ascending(S) ==
    IF S = {} THEN <<>>
    ELSE LET m == CHOOSE x \in S : \A y \in S : x <= y
         IN  <<m>> \o Ascending(S \ {m})

-----------------------------------------------------------------------------
(* The functions of moshes_insanity.py *)

\* mutant: the cube turned the other way
spin_cube_counter_clockwise(c) ==
    SubSeq(c, 1, 2) \o <<c[Len(c)]>> \o SubSeq(c, 3, Len(c) - 1)

spin_cube_clockwise(c) ==
    SubSeq(c, 1, 2) \o SubSeq(c, 4, Len(c)) \o <<c[3]>>

\* mutant: the ValueError of list.remove is not caught
unsafe_remove_cube_from_list(lst, c) ==
    LET r == list_remove(lst, c)
    IN  [exc |-> r.exc, ret |-> r.exc = None, lst |-> r.lst]

safe_remove_cube_from_list(lst, c) ==
    LET r == list_remove(lst, c)
    IN  IF r.exc = "ValueError"
        THEN [exc |-> None, ret |-> FALSE, lst |-> lst]
        ELSE [exc |-> None, ret |-> TRUE, lst |-> r.lst]

\* line 42: the orderings with Y in slot 0, in itertools order
AnchoredOrderings == SelectSeq(permutations(CUBE_COLORS), LAMBDA c : c[1] = "Y")

\* mutant: the wrap-around corners name their sides in the other order
get_corners_wrap_reversed(c) ==
    LET top == c[2]
        bottom == c[1]
    IN  << <<top, c[3], c[4]>>,
           <<top, c[4], c[5]>>,
           <<top, c[5], c[6]>>,
           <<top, c[3], c[6]>>,
           <<bottom, c[3], c[4]>>,
           <<bottom, c[4], c[5]>>,
           <<bottom, c[5], c[6]>>,
           <<bottom, c[3], c[6]>> >>

get_corners(c) ==
    LET top == c[2]
        bottom == c[1]
    IN  << <<top, c[3], c[4]>>,
           <<top, c[4], c[5]>>,
           <<top, c[5], c[6]>>,
           <<top, c[6], c[3]>>,
           <<bottom, c[3], c[4]>>,
           <<bottom, c[4], c[5]>>,
           <<bottom, c[5], c[6]>>,
           <<bottom, c[6], c[3]>> >>

spin_corner(corner) == SubSeq(corner, 2, Len(corner)) \o <<corner[1]>>

get_all_corner_names(corner) ==
    LET c1 == spin_corner(corner)
        c2 == spin_corner(c1)
    IN  {corner, c1, c2}

\* mutant: corners match when they have the same colours, in any order
is_corner_matching_by_colours(c1, c2) == Range(c1) = Range(c2)

is_corner_matching(c1, c2) ==
    any_str(get_all_corner_names(c1) \cap get_all_corner_names(c2))

has_matching_corners(a, b) ==
    LET corners1 == Range(get_corners(a))
        corners2 == Range(get_corners(b))
    IN  \E x \in corners1 : \E y \in corners2 : is_corner_matching(x, y)

\* mutant: the stub that fills every cell with False
has_a_matching_corner_stub(corner, b) == FALSE

has_a_matching_corner(corner, b) ==
    \E y \in Range(get_corners(b)) : is_corner_matching(corner, y)

\* mutant: the test of line 107 without its "not"
generate_exclusions_without_not(possible_cubes) ==
    [a \in 0..(Len(possible_cubes) - 1) |->
        {b \in 0..(Len(possible_cubes) - 1) :
            has_matching_corners(possible_cubes[a + 1], possible_cubes[b + 1])}]

generate_exclusions(possible_cubes) ==
    [a \in 0..(Len(possible_cubes) - 1) |->
        {b \in 0..(Len(possible_cubes) - 1) :
            ~has_matching_corners(possible_cubes[a + 1], possible_cubes[b + 1])}]

generate_chessboard(game_cubes, oracle_cube) ==
    LET oracle_corners == get_corners(oracle_cube)
    IN  [c \in Range(game_cubes) |->
            [corner \in Range(oracle_corners) |-> has_a_matching_corner(corner, c)]]

get_oracle_cubes(possible_cubes, excl, numbers) ==
    LET g == numbers
        idx == [k \in 1..Len(possible_cubes) |-> k - 1]
    IN  SelectSeq(idx, LAMBDA c : ~any_int(g \cap excl[c]))

-----------------------------------------------------------------------------
(* main() *)

HarnessIdle == args = None /\ spun = None /\ n = 0 /\ ret = NoCall

\* line 42: generate_cubes has built the list of the 120 anchored orderings
Init ==
    /\ pc = "generate_cubes"
    /\ cubes = AnchoredOrderings
    /\ i = 0
    /\ exclusions = <<>>
    /\ game_cube_numbers = {}
    /\ oracle_cubes = <<>>
    /\ chessboard = <<>>
    /\ HarnessIdle

\* mutant: the loop forgets to remove the third spin
GenerateCubesStepKeepsThirdSpin ==
    /\ pc = "generate_cubes"
    /\ IF i < NumCubes
       THEN LET c  == cubes[i + 1]
                c1 == spin_cube_clockwise(c)
                c2 == spin_cube_clockwise(c1)
                r1 == safe_remove_cube_from_list(cubes, c1)
                r2 == safe_remove_cube_from_list(r1.lst, c2)
            IN  /\ cubes' = r2.lst
                /\ i' = i + 1
                /\ pc' = pc
       ELSE /\ pc' = "generate_exclusions"
            /\ UNCHANGED <<cubes, i>>
    /\ UNCHANGED <<exclusions, game_cube_numbers, oracle_cubes, chessboard>>
    /\ UNCHANGED harnessVars

\* lines 46-55: one iteration of the loop of generate_cubes, or its return
GenerateCubesStep ==
    /\ pc = "generate_cubes"
    /\ IF i < NumCubes
       THEN IF i + 1 > Len(cubes)
            THEN /\ pc' = "IndexError"
                 /\ UNCHANGED <<cubes, i>>
            ELSE LET c  == cubes[i + 1]
                     c1 == spin_cube_clockwise(c)
                     c2 == spin_cube_clockwise(c1)
                     c3 == spin_cube_clockwise(c2)
                     r1 == safe_remove_cube_from_list(cubes, c1)
                     r2 == safe_remove_cube_from_list(r1.lst, c2)
                     r3 == safe_remove_cube_from_list(r2.lst, c3)
                 IN  IF r1.exc # None \/ r2.exc # None \/ r3.exc # None
                     THEN /\ pc' = "ValueError"
                          /\ UNCHANGED <<cubes, i>>
                     ELSE /\ cubes' = r3.lst
                          /\ i' = i + 1
                          /\ pc' = pc
       ELSE /\ pc' = "generate_exclusions"
            /\ UNCHANGED <<cubes, i>>
    /\ UNCHANGED <<exclusions, game_cube_numbers, oracle_cubes, chessboard>>
    /\ UNCHANGED harnessVars

\* line 160
GenerateExclusions ==
    /\ pc = "generate_exclusions"
    /\ exclusions' = generate_exclusions(cubes)
    /\ pc' = "pick"
    /\ UNCHANGED <<cubes, i, game_cube_numbers, oracle_cubes, chessboard>>
    /\ UNCHANGED harnessVars

\* mutant: the loop runs once too often
LoopTestOffByOne(g) == Cardinality(g) <= GameSize

\* the loop test of line 170
LoopTest(g) == Cardinality(g) < GameSize

\* lines 170-171: one pass of the loop, randint(0, 29) returning d
Draw(d) ==
    /\ pc = "pick"
    /\ LoopTest(game_cube_numbers)
    /\ game_cube_numbers' = game_cube_numbers \cup {d}
    /\ UNCHANGED <<pc, cubes, i, exclusions, oracle_cubes, chessboard>>
    /\ UNCHANGED harnessVars

DrawNew == \E d \in 0..(Min(MaxDraw, NumCubes) - 1) :
               d \notin game_cube_numbers /\ Draw(d)

DrawAgain == \E d \in 0..(Min(MaxDraw, NumCubes) - 1) :
                 d \in game_cube_numbers /\ Draw(d)

\* lines 170-181: the loop ends; get_oracle_cubes is called
GetOracleCubes ==
    /\ pc = "pick"
    /\ ~LoopTest(game_cube_numbers)
    /\ oracle_cubes' = get_oracle_cubes(cubes, exclusions, game_cube_numbers)
    /\ pc' = "oracle"
    /\ UNCHANGED <<cubes, i, exclusions, game_cube_numbers, chessboard>>
    /\ UNCHANGED harnessVars

\* line 172: the game cubes, in the iteration order of the set (increasing for
\* a CPython set of 8 ints below 32)
GameCubes == LET order == Ascending(game_cube_numbers)
             IN  [k \in 1..Len(order) |-> cubes[order[k] + 1]]

\* lines 186-187
NoOracle ==
    /\ pc = "oracle"
    /\ oracle_cubes = <<>>
    /\ pc' = "done"
    /\ UNCHANGED mainVars
    /\ UNCHANGED harnessVars

\* lines 188-192
GenerateChessboard ==
    /\ pc = "oracle"
    /\ oracle_cubes # <<>>
    /\ LET oracle_cube_number == oracle_cubes[1]
           oracle_cube == cubes[oracle_cube_number + 1]
       IN  chessboard' = generate_chessboard(GameCubes, oracle_cube)
    /\ pc' = "done"
    /\ UNCHANGED <<cubes, i, exclusions, game_cube_numbers, oracle_cubes>>
    /\ UNCHANGED harnessVars

Next ==
    \/ GenerateCubesStep
    \/ GenerateExclusions
    \/ DrawNew
    \/ DrawAgain
    \/ GetOracleCubes
    \/ NoOracle
    \/ GenerateChessboard

Spec == Init /\ [][Next]_vars

\* the program runs on; a cube not yet selected is eventually drawn
FairSpec == Spec /\ WF_vars(DrawNew) /\ WF_vars(GetOracleCubes)

-----------------------------------------------------------------------------
(* Vocabulary of the properties *)

Colors == Range(CUBE_COLORS)

RECURSIVE SpinTimes(_, _)
SpinTimes(c, k) == IF k = 0 THEN c ELSE SpinTimes(spin_cube_clockwise(c), k - 1)

\* the triple t read from its (s+1)-th element on, cyclically
CyclicShift(t, s) == [k \in 1..3 |-> t[((k - 1 + s) % 3) + 1]]

IsCyclicRotation(t, u) == \E s \in 0..2 : u = CyclicShift(t, s)

Indices == 0..(NumCubes - 1)

CubesReturned == pc \in {"generate_exclusions", "pick", "oracle", "done"}

GenerateCubesOver == pc # "generate_cubes"

TableBuilt == pc \in {"pick", "oracle", "done"}

OraclesReturned == pc \in {"oracle", "done"}

-----------------------------------------------------------------------------
(* Calls with their exceptions: what a call returns, or the exception the  *)
(* first failing subscript raises.                                         *)

\* mutant: the cube is validated before it is spun
call_spin_cube_clockwise_validated(c) ==
    IF ~IsCubeOrdering(c) THEN Raised("spin_cube_clockwise", "ValidationError")
    ELSE Returned("spin_cube_clockwise", spin_cube_clockwise(c))

\* line 25: cube[2] needs 3 slots; the slices of lines 21 and 23 never raise
call_spin_cube_clockwise(c) ==
    IF Len(c) < 3 THEN Raised("spin_cube_clockwise", "IndexError")
    ELSE Returned("spin_cube_clockwise", spin_cube_clockwise(c))

\* lines 59-69: cube[0]..cube[5] need 6 slots
call_get_corners(c) ==
    IF Len(c) < 6 THEN Raised("get_corners", "IndexError")
    ELSE Returned("get_corners", get_corners(c))

\* lines 88-89
call_has_matching_corners(a, b) ==
    IF call_get_corners(a).exc # None
    THEN Raised("has_matching_corners", call_get_corners(a).exc)
    ELSE IF call_get_corners(b).exc # None
    THEN Raised("has_matching_corners", call_get_corners(b).exc)
    ELSE Returned("has_matching_corners", has_matching_corners(a, b))

\* lines 106-107: every pair of the list goes through has_matching_corners
call_generate_exclusions(possible_cubes) ==
    IF \E k \in DOMAIN possible_cubes : call_get_corners(possible_cubes[k]).exc # None
    THEN Raised("generate_exclusions", "IndexError")
    ELSE Returned("generate_exclusions", generate_exclusions(possible_cubes))

\* lines 118-123: get_corners of the oracle, then of each game cube
call_generate_chessboard(game_cubes, oracle_cube) ==
    IF call_get_corners(oracle_cube).exc # None
    THEN Raised("generate_chessboard", call_get_corners(oracle_cube).exc)
    ELSE IF \E k \in DOMAIN game_cubes : call_get_corners(game_cubes[k]).exc # None
    THEN Raised("generate_chessboard", "IndexError")
    ELSE Returned("generate_chessboard", generate_chessboard(game_cubes, oracle_cube))

-----------------------------------------------------------------------------
(* Call harnesses: Init draws the arguments, the actions make the calls *)

MainIdle ==
    /\ cubes = <<>> /\ i = 0 /\ exclusions = <<>> /\ game_cube_numbers = {}
    /\ oracle_cubes = <<>> /\ chessboard = <<>>

\* all tuples over S of length 0..k
TuplesUpTo(S, k) == UNION {[1..m -> S] : m \in 0..k}

(* spin_cube_clockwise, get_corners and has_matching_corners on spun cubes *)

InitSpin ==
    /\ pc = "spin"
    /\ MainIdle
    /\ \E c \in Range(permutations(CUBE_COLORS)) :
       \E k \in 1..MaxCube2 :
           /\ args = [cube |-> c, cube2 |-> AnchoredOrderings[k]]
           /\ spun = c
    /\ n = 0
    /\ ret = NoCall

SpinCube ==
    /\ pc = "spin"
    /\ n < MaxSpins
    /\ spun' = spin_cube_clockwise(spun)
    /\ n' = n + 1
    /\ ret' = NoCall
    /\ UNCHANGED <<pc, args>>
    /\ UNCHANGED mainVars

GetCorners ==
    /\ pc = "spin"
    /\ ret' = call_get_corners(spun)
    /\ UNCHANGED <<pc, args, spun, n>>
    /\ UNCHANGED mainVars

HasMatchingCorners ==
    /\ pc = "spin"
    /\ ret' = call_has_matching_corners(spun, args.cube2)
    /\ UNCHANGED <<pc, args, spun, n>>
    /\ UNCHANGED mainVars

\* the spun cube as the second argument
HasMatchingCornersOfSecond ==
    /\ pc = "spin"
    /\ ret' = [call_has_matching_corners(args.cube2, spun) EXCEPT !.fn = "has_matching_corners_2"]
    /\ UNCHANGED <<pc, args, spun, n>>
    /\ UNCHANGED mainVars

NextSpin == SpinCube \/ GetCorners \/ HasMatchingCorners \/ HasMatchingCornersOfSecond

SpecSpin == InitSpin /\ [][NextSpin]_vars

(* is_corner_matching on any two triples of colours *)

InitCorner ==
    /\ pc = "corner"
    /\ MainIdle
    /\ \E x, y \in [1..3 -> Colors] : args = [corner1 |-> x, corner2 |-> y]
    /\ spun = None
    /\ n = 0
    /\ ret = NoCall

IsCornerMatching ==
    /\ pc = "corner"
    /\ ret' = Returned("is_corner_matching",
                       is_corner_matching(args.corner1, args.corner2))
    /\ pc' = "returned"
    /\ UNCHANGED <<args, spun, n>>
    /\ UNCHANGED mainVars

NextCorner == IsCornerMatching

SpecCorner == InitCorner /\ [][NextCorner]_vars

(* the core operations on malformed cubes: tuples of any length up to      *)
(* MaxCubeLen over two colours of the alphabet and one outside it          *)

MalformedColors == {"Y", "B", "X"}

InitMalformed ==
    /\ pc = "malformed"
    /\ MainIdle
    /\ \E c \in TuplesUpTo(MalformedColors, MaxCubeLen) : args = [cube |-> c]
    /\ spun = None
    /\ n = 0
    /\ ret = NoCall

CallOnMalformed(r) ==
    /\ pc = "malformed"
    /\ ret' = r
    /\ pc' = "returned"
    /\ UNCHANGED <<args, spun, n>>
    /\ UNCHANGED mainVars

MalformedSpin == CallOnMalformed(call_spin_cube_clockwise(args.cube))

MalformedGetCorners == CallOnMalformed(call_get_corners(args.cube))

MalformedHasMatchingCorners ==
    CallOnMalformed(call_has_matching_corners(args.cube, CUBE_COLORS))

MalformedGenerateExclusions ==
    CallOnMalformed(call_generate_exclusions(<<CUBE_COLORS, args.cube>>))

MalformedGenerateChessboard ==
    CallOnMalformed(call_generate_chessboard(<<args.cube>>, CUBE_COLORS))

NextMalformed ==
    \/ MalformedSpin
    \/ MalformedGetCorners
    \/ MalformedHasMatchingCorners
    \/ MalformedGenerateExclusions
    \/ MalformedGenerateChessboard

SpecMalformed == InitMalformed /\ [][NextMalformed]_vars

(* safe_remove_cube_from_list called on any short list of three cubes, and *)
(* called by generate_cubes                                                *)

SampleCubes == {AnchoredOrderings[k] : k \in 1..3}

InitRemove ==
    \/ /\ pc = "remove"
       /\ \E l \in TuplesUpTo(SampleCubes, MaxListLen) : \E c \in SampleCubes :
              /\ args = [cubes |-> l, cube_to_remove |-> c]
              /\ cubes = l
       /\ i = 0 /\ exclusions = <<>> /\ game_cube_numbers = {}
       /\ oracle_cubes = <<>> /\ chessboard = <<>>
       /\ spun = None /\ n = 0 /\ ret = NoCall
    \/ Init

SafeRemoveCubeFromList ==
    /\ pc = "remove"
    /\ LET r == safe_remove_cube_from_list(cubes, args.cube_to_remove)
       IN  /\ cubes' = r.lst
           /\ ret' = IF r.exc # None
                     THEN Raised("safe_remove_cube_from_list", r.exc)
                     ELSE Returned("safe_remove_cube_from_list", r.ret)
    /\ pc' = "removed"
    /\ UNCHANGED <<i, exclusions, game_cube_numbers, oracle_cubes, chessboard>>
    /\ UNCHANGED <<args, spun, n>>

NextRemove == SafeRemoveCubeFromList \/ GenerateCubesStep

SpecRemove == InitRemove /\ [][NextRemove]_vars

-----------------------------------------------------------------------------
(* Properties of main() *)

\* C1: get_oracle_cubes returns index O iff exclusions[O] has an empty
\* intersection with the game selection, for every O in 0..29.
C1_OracleIffNoExcludedGameCube ==
    OraclesReturned =>
        \A O \in Indices :
            (O \in Range(oracle_cubes)) <=> (exclusions[O] \cap game_cube_numbers = {})

\* C2: generate_cubes returns exactly 30 cubes, each an ordering of the 6
\* colours with Y in slot 0, no two of them related by 0..3 spins, and every
\* anchored ordering has exactly one of its 4 spins in the result.
C2_ThirtyRotationDistinctCubes ==
    GenerateCubesOver =>
        /\ CubesReturned
        /\ Len(cubes) = 30
        /\ \A a \in 1..Len(cubes) : IsCubeOrdering(cubes[a]) /\ cubes[a][1] = "Y"
        /\ \A a, b \in 1..Len(cubes) :
               a # b => \A k \in 0..3 : SpinTimes(cubes[a], k) # cubes[b]
        /\ \A o \in Range(AnchoredOrderings) :
               Cardinality({a \in 1..Len(cubes) :
                               \E k \in 0..3 : SpinTimes(o, k) = cubes[a]}) = 1

C2_Witness == pc = "generate_exclusions" /\ i = NumCubes /\ Len(cubes) = 30

\* C3: the exclusion table is symmetric and irreflexive.
C3_ExclusionSymmetricIrreflexive ==
    TableBuilt =>
        /\ DOMAIN exclusions = Indices
        /\ \A a, b \in Indices : (a \in exclusions[b]) <=> (b \in exclusions[a])
        /\ \A a \in Indices : a \notin exclusions[a]

C3_Witness ==
    /\ TableBuilt
    /\ \E a, b \in Indices : a \in exclusions[b] /\ b \in exclusions[a]
    /\ \E a, b \in Indices : a # b /\ a \notin exclusions[b]

\* C5: the chessboard has one row per game cube (8) and one column per oracle
\* corner (8); a cell is true iff some corner of the game cube is a cyclic
\* rotation of the oracle corner.
C5_ChessboardShapeAndCells ==
    (pc = "done" /\ oracle_cubes # <<>>) =>
        LET oracle_cube == cubes[oracle_cubes[1] + 1]
            oracle_corners == get_corners(oracle_cube)
            game_cubes == {cubes[g + 1] : g \in game_cube_numbers}
        IN  /\ DOMAIN chessboard = game_cubes
            /\ Cardinality(DOMAIN chessboard) = 8
            /\ \A c \in game_cubes :
                   /\ DOMAIN chessboard[c] = Range(oracle_corners)
                   /\ Cardinality(DOMAIN chessboard[c]) = 8
                   /\ \A j \in 1..8 :
                          chessboard[c][oracle_corners[j]] <=>
                              \E m \in 1..8 :
                                  IsCyclicRotation(get_corners(c)[m], oracle_corners[j])

C5_Witness ==
    /\ pc = "done"
    /\ oracle_cubes # <<>>
    /\ \E c \in DOMAIN chessboard : \E x, y \in DOMAIN chessboard[c] :
           chessboard[c][x] /\ ~chessboard[c][y]

\* C9: the draw loop keeps a set of at most 8 indices within 0..29, is left
\* only with exactly 8 of them, and is eventually left when an index not yet
\* in the set is eventually drawn.
C9_DrawLoop ==
    /\ [](/\ game_cube_numbers \subseteq Indices
          /\ Cardinality(game_cube_numbers) <= 8
          /\ OraclesReturned => Cardinality(game_cube_numbers) = 8)
    /\ (pc = "pick") ~> OraclesReturned

C9_Witness ==
    /\ pc = "oracle"
    /\ Cardinality(game_cube_numbers) = 8
    /\ game_cube_numbers \subseteq Indices

-----------------------------------------------------------------------------
(* Properties of the functions, under the call harnesses *)

Malformed(c) == ~IsCubeOrdering(c)

Reversed(t) == <<t[1], t[3], t[2]>>

\* C4: is_corner_matching(c1, c2) is true iff c2 is c1 shifted cyclically by
\* 0, 1 or 2; the reversal of a corner of three distinct colours never matches.
C4_CornerMatchIffCyclicRotation ==
    pc = "returned" =>
        /\ ret.val <=> IsCyclicRotation(args.corner1, args.corner2)
        /\ (Cardinality(Range(args.corner1)) = 3 /\ args.corner2 = Reversed(args.corner1))
               => ~ret.val

C4_Witness ==
    /\ pc = "returned"
    /\ args.corner1 = <<"Y", "R", "P">>
    /\ args.corner2 = <<"R", "P", "Y">>
    /\ ret.val

\* C6: 4 spins give the cube back; 1, 2 or 3 spins give another cube of the
\* same colours with slots 0 and 1 kept and slots 2..5 shifted, the new front
\* being the previous slot 3.
C6_SpinIsOrderFourShift ==
    pc = "spin" =>
        LET k == n % 4
        IN  /\ Len(spun) = 6
            /\ Range(spun) = Range(args.cube)
            /\ spun[1] = args.cube[1]
            /\ spun[2] = args.cube[2]
            /\ \A j \in 0..3 : spun[3 + j] = args.cube[3 + ((j + k) % 4)]
            /\ (k = 0) <=> (spun = args.cube)

C6_Witness == pc = "spin" /\ n = 4 /\ spun = args.cube

\* C7 as claimed: a core operation given a malformed cube raises a validation
\* error.
C7_MalformedCubeRejected ==
    (pc = "returned" /\ Malformed(args.cube)) => ret.exc = "ValidationError"

NeededSlots(fn) == IF fn = "spin_cube_clockwise" THEN 3 ELSE 6

\* C7 as amended: no core operation validates its cube; a malformed cube gets
\* a normal result unless it is shorter than the slots the operation
\* subscripts (3 for spin_cube_clockwise, 6 for the others), and then the
\* subscript raises IndexError.
C7_MalformedCubeNotValidated ==
    (pc = "returned" /\ Malformed(args.cube)) =>
        /\ ret.exc \in {None, "IndexError"}
        /\ (ret.exc = None) <=> (Len(args.cube) >= NeededSlots(ret.fn))
        /\ (ret.fn = "spin_cube_clockwise" /\ ret.exc = None) =>
               /\ Len(ret.val) = Len(args.cube)
               /\ Range(ret.val) = Range(args.cube)

C7_Witness ==
    /\ pc = "returned"
    /\ args.cube = <<"Y", "Y", "B", "X", "X", "B">>
    /\ ret.fn = "get_corners"
    /\ ret.exc = None

\* C8: safe_remove_cube_from_list of an absent cube returns False and leaves
\* the list as it was; of a present cube it returns True and drops exactly one
\* occurrence, the rest kept in order; generate_cubes never aborts.
C8_SafeRemove ==
    /\ pc \notin {"ValueError", "IndexError"}
    /\ pc = "removed" =>
           /\ ret.exc = None
           /\ IF args.cube_to_remove \notin Range(args.cubes)
              THEN ret.val = FALSE /\ cubes = args.cubes
              ELSE /\ ret.val = TRUE
                   /\ \E k \in DOMAIN args.cubes :
                          /\ args.cubes[k] = args.cube_to_remove
                          /\ cubes = RemoveAt(args.cubes, k)

C8_Witness ==
    /\ pc = "removed"
    /\ ret.val = FALSE
    /\ args.cubes # <<>>
    /\ cubes = args.cubes

\* C10: a spun cube has the same set of corners as the cube, and shares a
\* corner with another cube iff the cube does, whichever argument it is.
C10_CornersInvariantUnderSpin ==
    (pc = "spin" /\ ret.fn # None) =>
        /\ ret.exc = None
        /\ ret.fn = "get_corners" =>
               Range(ret.val) = Range(get_corners(args.cube))
        /\ ret.fn = "has_matching_corners" =>
               ret.val = has_matching_corners(args.cube, args.cube2)
        /\ ret.fn = "has_matching_corners_2" =>
               ret.val = has_matching_corners(args.cube2, args.cube)

C10_Witness ==
    /\ pc = "spin"
    /\ n = 1
    /\ ret.fn = "has_matching_corners"
    /\ ret.val = FALSE

====
